---- MODULE Spec2Model ----
(***************************************************************************)
(* A model of scripts/extract_news.py: the segmentation of the index page  *)
(* into news entries, the date normalisation of each heading, the          *)
(* rendering and writing of one file per entry, and the command line       *)
(* driver main().  The module is used in two ways: run as a script, and    *)
(* imported, with its functions called directly.                           *)
(*                                                                         *)
(* Text is modelled as a sequence of tokens (a word, a run of digits with  *)
(* its value and printed width, a punctuation mark, white space, a line    *)
(* break, a markup tag).  Python's None is the empty sequence, so that     *)
(* Python truthiness of an optional string is "is not the empty sequence". *)
(***************************************************************************)
EXTENDS Integers, Sequences, FiniteSets, TLC

\* Longest sibling list of the parsed index page that is explored.
MaxNodes == 3

---------------------------------------------------------------------------
(* Tokens and optional values *)

None == <<>>
Truthy(x) == x # None

W(s) == [k |-> "word", s |-> s, n |-> 0, w |-> 0]
D(n, w) == [k |-> "num", s |-> "", n |-> n, w |-> w]
P(s) == [k |-> "punct", s |-> s, n |-> 0, w |-> 0]
T(s) == [k |-> "tag", s |-> s, n |-> 0, w |-> 0]
SP == [k |-> "space", s |-> " ", n |-> 0, w |-> 0]
NL == [k |-> "nl", s |-> "\n", n |-> 0, w |-> 0]

IsWhite(t) == t.k \in {"space", "nl"}

RECURSIVE LStrip(_)
LStrip(s) == IF s # <<>> /\ IsWhite(Head(s)) THEN LStrip(Tail(s)) ELSE s

RECURSIVE RStrip(_)
RStrip(s) ==
    IF s # <<>> /\ IsWhite(s[Len(s)]) THEN RStrip(SubSeq(s, 1, Len(s) - 1)) ELSE s

\* str.strip()
Strip(s) == RStrip(LStrip(s))

\* sep.join(parts)
RECURSIVE Join(_, _)
Join(sep, parts) ==
    IF parts = <<>> THEN <<>>
    ELSE IF Len(parts) = 1 THEN Head(parts)
    ELSE Head(parts) \o sep \o Join(sep, Tail(parts))

---------------------------------------------------------------------------
(* parse_date *)

OrdinalSuffixes == {"st", "nd", "rd", "th"}

\* Words that match [A-Z][a-z]+ as a whole.
CapWords == {"January", "February", "March", "April", "May", "June", "July",
             "August", "September", "October", "November", "December",
             "Jan", "Feb", "Mar", "Apr", "Jun", "Jul", "Aug", "Sep", "Oct",
             "Nov", "Dec", "Foo", "Not", "Release", "Notes", "Bad", "Date"}

FullMonths == <<"January", "February", "March", "April", "May", "June", "July",
                "August", "September", "October", "November", "December">>

AbbrMonths == <<"Jan", "Feb", "Mar", "Apr", "May", "Jun", "Jul",
                "Aug", "Sep", "Oct", "Nov", "Dec">>

\* The month number of a name in a table of month names, 0 when it is not there.
MonthIn(table, name) ==
    IF \E m \in 1..12 : table[m] = name
    THEN CHOOSE m \in 1..12 : table[m] = name
    ELSE 0

IsLeap(y) == (y % 4 = 0) /\ ((y % 100 # 0) \/ (y % 400 = 0))

DaysInMonth(y, m) ==
    IF m = 2 THEN (IF IsLeap(y) THEN 29 ELSE 28)
    ELSE IF m \in {4, 6, 9, 11} THEN 30 ELSE 31

\* re.sub(r'(\d+)(st|nd|rd|th)', r'\1', date_str)
RECURSIVE StripOrdinals(_)
StripOrdinals(s) ==
    IF Len(s) < 2 THEN s
    ELSE IF s[1].k = "num" /\ s[2].k = "word" /\ s[2].s \in OrdinalSuffixes
         THEN <<s[1]>> \o StripOrdinals(SubSeq(s, 3, Len(s)))
         ELSE <<s[1]>> \o StripOrdinals(Tail(s))

\* datetime.strptime(s, '<month> %d, %Y') with the month directive's table:
\* the date triple, or None where strptime raises ValueError.
Strptime(s, table) ==
    IF /\ Len(s) = 6
       /\ s[1].k = "word" /\ MonthIn(table, s[1].s) # 0
       /\ s[2].k = "space"
       /\ s[3].k = "num" /\ s[3].w \in {1, 2} /\ s[3].n >= 1 /\ s[3].n <= 31
       /\ s[4] = P(",")
       /\ s[5].k = "space"
       /\ s[6].k = "num" /\ s[6].w = 4 /\ s[6].n >= 1
       /\ s[3].n <= DaysInMonth(s[6].n, MonthIn(table, s[1].s))
    THEN <<s[6].n, MonthIn(table, s[1].s), s[3].n>>
    ELSE None

\* dt.strftime('%Y-%m-%d')
Strftime(dt) == <<D(dt[1], 4), P("-"), D(dt[2], 2), P("-"), D(dt[3], 2)>>

\* parse_date(date_str): the pair (dt, second value) the function returns.
ParseDate(date_str) ==
    LET date_clean == StripOrdinals(date_str)
        full == Strptime(date_clean, FullMonths)
        abbr == Strptime(date_clean, AbbrMonths)
    IN  IF full # None THEN <<full, Strftime(full)>>
        ELSE IF abbr # None THEN <<abbr, Strftime(abbr)>>
        ELSE <<None, date_str>>

\* The heading pattern
\*   ([A-Z][a-z]+\s+\d+(?:st|nd|rd|th)?,\s+\d{4}),?\s*(.*)
\* matched at the start of the text: the length of group 1, 0 for no match.
DateMatchLen(t) ==
    LET suf == IF Len(t) >= 4 /\ t[4].k = "word" /\ t[4].s \in OrdinalSuffixes
               THEN 1 ELSE 0
    IN  IF /\ Len(t) >= 6 + suf
           /\ t[1].k = "word" /\ t[1].s \in CapWords
           /\ t[2].k = "space"
           /\ t[3].k = "num"
           /\ t[4 + suf] = P(",")
           /\ t[5 + suf].k = "space"
           /\ t[6 + suf].k = "num" /\ t[6 + suf].w = 4
        THEN 6 + suf
        ELSE 0

\* Group 2 of the heading pattern: what follows group 1, an optional comma
\* and optional white space.
DateMatchRest(t) ==
    LET n == DateMatchLen(t)
        r1 == SubSeq(t, n + 1, Len(t))
        r2 == IF r1 # <<>> /\ Head(r1) = P(",") THEN Tail(r1) ELSE r1
    IN  LStrip(r2)

---------------------------------------------------------------------------
(* The parsed index page *)

\* Heading texts, as ''.join(h3.itertext()) yields them.
HeadFull == <<W("August"), SP, D(22, 2), W("nd"), P(","), SP, D(2025, 4),
              P(","), SP, W("Release")>>
HeadAbbr == <<W("Aug"), SP, D(2, 1), P(","), SP, D(2024, 4), SP, W("Notes")>>
HeadBadDay == <<W("August"), SP, D(32, 2), W("nd"), P(","), SP, D(2025, 4),
                P(","), SP, W("Bad")>>
HeadNoDate == <<W("Not"), SP, W("A"), SP, W("Date")>>

\* An element: its tag, whether it carries an id attribute and the
\* attribute's value, its text and the text that follows it (its tail).
Elem(tag, hasid, id, text, tail) ==
    [tag |-> tag, hasid |-> hasid, id |-> id, text |-> text, tail |-> tail]

IdA == <<W("a")>>
IdB == <<W("b")>>

\* The elements the explored pages are built from.  All of them are children
\* of one parent, as the headings and paragraphs of the news page are.
NodeKinds ==
    { Elem("h3", TRUE, IdA, HeadFull, <<>>),
      Elem("h3", TRUE, IdB, HeadAbbr, <<>>),
      Elem("h3", TRUE, IdA, HeadBadDay, <<>>),
      Elem("h3", TRUE, IdB, HeadNoDate, <<>>),
      Elem("h3", TRUE, <<>>, HeadNoDate, <<>>),
      Elem("h3", FALSE, <<>>, HeadFull, <<>>),
      Elem("h1", FALSE, <<>>, <<W("Older")>>, <<>>),
      Elem("p", FALSE, <<>>, <<W("text")>>, <<NL>>) }

Documents == UNION { [1..n -> NodeKinds] : n \in 0..MaxNodes }

\* elem.get('id'): None when the attribute is absent.
GetId(e) == IF e.hasid THEN e.id ELSE None

\* lxml_html.tostring(elem, encoding='unicode', method='html'): the element
\* with its tail.
Tostring(e) ==
    <<T(e.tag)>>
    \o (IF e.hasid THEN <<T("id=" \o (IF e.id = <<>> THEN "" ELSE e.id[1].s))>> ELSE <<>>)
    \o e.text \o <<T("/" \o e.tag)>> \o e.tail

---------------------------------------------------------------------------
(* extract_news_entries *)

\* The fault of selecting every h3, with or without an id attribute.
IsNewsH3AnyH3(e) == e.tag = "h3"

\* The XPath predicate h3[@id]: an h3 element that has an id attribute.
IsNewsH3(e) == e.tag = "h3" /\ e.hasid

\* tree.xpath('//h3[@id]'): the positions of the matching elements, in
\* document order.
RECURSIVE NewsH3sFrom(_, _)
NewsH3sFrom(d, p) ==
    IF p > Len(d) THEN <<>>
    ELSE (IF IsNewsH3(d[p]) THEN <<p>> ELSE <<>>) \o NewsH3sFrom(d, p + 1)

NewsH3s(d) == NewsH3sFrom(d, 1)

\* The two tests that end the sibling scan.
StopsScan(e) == (e.tag = "h3" /\ Truthy(GetId(e))) \/ e.tag = "h1"

\* The while loop over h3.getnext(): the positions collected into
\* content_elements, starting at sibling position p.
RECURSIVE ScanSiblings(_, _)
ScanSiblings(d, p) ==
    IF p > Len(d) THEN <<>>
    ELSE IF StopsScan(d[p]) THEN <<>>
    ELSE <<p>> \o ScanSiblings(d, p + 1)

ContentElements(d, h) == ScanSiblings(d, h + 1)

\* '\n'.join(tostring(elem) for elem in content_elements).strip()
ContentHtml(d, span) ==
    Strip(Join(<<NL>>, [j \in 1..Len(span) |-> Tostring(d[span[j]])]))

\* The body of the for loop: the entry built for the i-th heading (i counts
\* from 0) at position h of the page.
MakeEntry(d, i, h) ==
    LET title_text == Strip(d[h].text)
        matched == DateMatchLen(title_text) > 0
        date_str == IF matched THEN SubSeq(title_text, 1, DateMatchLen(title_text))
                    ELSE None
        parsed == IF matched THEN ParseDate(date_str) ELSE <<None, None>>
    IN  [ id |-> GetId(d[h]),
          title_full |-> title_text,
          title |-> IF matched THEN Strip(DateMatchRest(title_text)) ELSE title_text,
          date_str |-> date_str,
          date_iso |-> parsed[2],
          datetime |-> parsed[1],
          content_html |-> ContentHtml(d, ContentElements(d, h)),
          index |-> i ]

---------------------------------------------------------------------------
(* html_to_markdown and create_news_markdown *)

\* html2text's handle(): the markup is dropped, each closing tag ends a
\* block with a blank line.
RECURSIVE Handle(_)
Handle(s) ==
    IF s = <<>> THEN <<>>
    ELSE IF Head(s).k = "tag"
         THEN (IF Head(s).s \in {"/p", "/h3", "/h1"} THEN <<NL, NL>> ELSE <<>>)
              \o Handle(Tail(s))
         ELSE <<Head(s)>> \o Handle(Tail(s))

\* The length of the run of line breaks at the head of s.
RECURSIVE NlRun(_)
NlRun(s) == IF s # <<>> /\ Head(s).k = "nl" THEN 1 + NlRun(Tail(s)) ELSE 0

\* The fault of the pattern \n{3}: every three line breaks become two, and
\* what is left of a longer run stays.
RECURSIVE CollapseTriples(_)
CollapseTriples(s) ==
    IF s = <<>> THEN <<>>
    ELSE IF NlRun(s) >= 3 THEN <<NL, NL>> \o CollapseTriples(SubSeq(s, 4, Len(s)))
    ELSE <<Head(s)>> \o CollapseTriples(Tail(s))

\* re.sub(r'\n{3,}', '\n\n', markdown)
RECURSIVE CollapseNewlines(_)
CollapseNewlines(s) ==
    IF s = <<>> THEN <<>>
    ELSE LET r == NlRun(s)
         IN  IF r >= 3 THEN <<NL, NL>> \o CollapseNewlines(SubSeq(s, r + 1, Len(s)))
             ELSE IF r > 0 THEN SubSeq(s, 1, r) \o CollapseNewlines(SubSeq(s, r + 1, Len(s)))
             ELSE <<Head(s)>> \o CollapseNewlines(Tail(s))

\* The clean-up after the conversion: markdown.strip(), then the collapse of
\* the runs of line breaks.
Cleanup(markdown) == CollapseNewlines(Strip(markdown))

\* html_to_markdown(html_content), where html2text was imported.
HtmlToMarkdown(html_content) == Cleanup(Handle(html_content))

\* The fault of printing the index without padding.
Pad3Unpadded(i) == <<D(i, IF i < 10 THEN 1 ELSE IF i < 10 * 10 THEN 2 ELSE 3)>>

\* f"{index:03d}"
Pad3(i) ==
    <<D(i, IF i < 10 * 10 * 10 THEN 3 ELSE IF i < 10 * 10 * 10 * 10 THEN 4 ELSE 5)>>

\* The filename of an entry.
Filename(entry) ==
    IF Truthy(entry.date_iso)
    THEN entry.date_iso \o <<P("-")>> \o entry.id \o <<P(".md")>>
    ELSE Pad3(entry.index) \o <<P("-")>> \o entry.id \o <<P(".md")>>

\* title_full.replace('"', '\\"')
RECURSIVE EscapeQuotes(_)
EscapeQuotes(s) ==
    IF s = <<>> THEN <<>>
    ELSE (IF Head(s) = P("\"") THEN <<P("\\"), P("\"")>> ELSE <<Head(s)>>)
         \o EscapeQuotes(Tail(s))

\* hashlib.sha256(text.encode('utf-8')).hexdigest(): a digest stands for the
\* text it was computed from.
Sha256(text) == <<[k |-> "sha256", s |-> "", n |-> 0, w |-> 0]>> \o text

\* The fault of digesting the rendered content instead of the source markup.
ChecksumInputRendered(entry, content) == content

\* The text the checksum_html field is computed from.
ChecksumInput(entry, content) == entry.content_html

Field(key, val) == [key |-> key, val |-> val]

\* The YAML front matter, one field per line.
Frontmatter(entry, content) ==
    <<Field("title", EscapeQuotes(entry.title_full))>>
    \o (IF Truthy(entry.date_iso)
        THEN <<Field("date", entry.date_iso \o <<W("T00:00:00Z")>>)>> ELSE <<>>)
    \o <<Field("slug", entry.id), Field("type", <<W("news")>>)>>
    \o (IF Truthy(entry.date_str)
        THEN <<Field("date_display", entry.date_str)>> ELSE <<>>)
    \o <<Field("checksum_html", Sha256(ChecksumInput(entry, content)))>>

\* The fault of a conversion that never fails, with or without html2text.
ConversionNeverRaises(keep_html, has_html2text) == FALSE

\* Whether the call html_to_markdown() raises: the name html2text is bound
\* only where the import succeeded.
ConversionRaises(keep_html, has_html2text) == ~keep_html /\ ~has_html2text

\* The content below the front matter.
RenderContent(entry, keep_html) ==
    IF keep_html THEN entry.content_html ELSE HtmlToMarkdown(entry.content_html)

\* create_news_markdown(entry, output_dir, keep_html): whether it raises, and
\* the path and text it writes when it does not.
CreateNewsMarkdown(entry, output_dir, keep_html, has_html2text) ==
    LET content == RenderContent(entry, keep_html)
    IN  [ raised |-> ConversionRaises(keep_html, has_html2text),
          filepath |-> [dir |-> output_dir, name |-> Filename(entry)],
          full_content |-> [frontmatter |-> Frontmatter(entry, content),
                            content |-> content] ]

\* extract_news_entries(index_file): the whole list it returns.
ExtractNewsEntries(d) ==
    [j \in 1..Len(NewsH3s(d)) |-> MakeEntry(d, j - 1, NewsH3s(d)[j])]

---------------------------------------------------------------------------
(* The run of main(), and direct calls of the module's functions *)

VARIABLES
    sys_argv,          \* the command line, program name first
    HAS_HTML2TEXT,     \* whether the import of html2text succeeded
    doc,               \* the parsed content of the index file
    fs_dirs,           \* the directories that exist
    fs_files,          \* the files written: path |-> text
    fs_dirs0,          \* the directories that existed when the run began
    pc,                \* where the run is
    index_file,        \* main's locals
    output_dir,
    keep_html,
    entries,           \* the list extract_news_entries builds
    content_elements,  \* per entry, the positions of the siblings collected
    k,                 \* how many entries the write loop has handled
    filepath,          \* what the last create_news_markdown call returned
    stdout,            \* what was printed
    exit_status,       \* -1 while running
    raised,            \* the exception that ended the run, if any
    markdown,          \* the text html_to_markdown's clean-up works on
    clean_hist,        \* the text given, then the result of each clean-up
    ec_argv,           \* extract_content.py: the command line
    ec_HAS_HTML2TEXT,  \* whether its import of html2text succeeded
    inventory_exists,  \* whether site_inventory.json is there
    all_pages,         \* the page list of the inventory
    page_files,        \* page |-> the state of its files under src/
    ec_pc,             \* where the run of extract_content.py is
    page_name,         \* its main's locals
    ec_output_dir,
    convert_to_markdown,
    pages_to_extract,
    results,
    ec_dirs,           \* the directories it has made
    out_files,         \* the files written under the output directory
    report,            \* extraction_report.json, once written
    ec_stdout,         \* what it has printed
    ec_exit            \* its exit status, -1 while it runs

newsVars == <<sys_argv, HAS_HTML2TEXT, doc, fs_dirs, fs_files, fs_dirs0, pc,
              index_file, output_dir, keep_html, entries, content_elements, k,
              filepath, stdout, exit_status, raised>>

cleanVars == <<markdown, clean_hist>>

contentVars == <<ec_argv, ec_HAS_HTML2TEXT, inventory_exists, all_pages,
                 page_files, ec_pc, page_name, ec_output_dir,
                 convert_to_markdown, pages_to_extract, results, ec_dirs,
                 out_files, report, ec_stdout, ec_exit>>

\* What the steps of extract_news.py's main and functions leave alone.
otherVars == <<cleanVars, contentVars>>

vars == <<newsVars, otherVars>>

Prog == "extract_news.py"
IndexPath == "src/index"
MissingPath == "nofile"
OutDir == "out"
HtmlFlag == "--html"

\* The command lines explored: up to three arguments after the program name.
Argvs ==
    {<<Prog>>}
    \cup {<<Prog, a>> : a \in {IndexPath, MissingPath}}
    \cup {<<Prog, a, b>> : a \in {IndexPath, MissingPath}, b \in {OutDir, HtmlFlag}}
    \cup {<<Prog, a, b, HtmlFlag>> :
            a \in {IndexPath, MissingPath}, b \in {OutDir, HtmlFlag}}

Range(s) == {s[j] : j \in 1..Len(s)}

Msg(kind, a, b) == [k |-> kind, a |-> a, b |-> b]

NoFiles == [x \in {} |-> <<>>]

\* Path.exists(): the index file is there, and so is every directory made.
Exists(path) == path = IndexPath \/ path \in fs_dirs

\* The fault of leaving a file that is already there as it is.
WriteTextKeepExisting(files, path, text) == files @@ (path :> text)

\* filepath.write_text(full_content)
WriteText(files, path, text) == (path :> text) @@ files

Locals0 ==
    /\ index_file = ""
    /\ output_dir = ""
    /\ keep_html = FALSE
    /\ entries = <<>>
    /\ content_elements = <<>>
    /\ k = 0
    /\ filepath = None
    /\ stdout = <<>>
    /\ exit_status = -1
    /\ raised = ""

\* No clean-up is under way.
CleanIdle == markdown = <<>> /\ clean_hist = <<>>

\* main's locals of extract_content.py before it has assigned them.
ContentLocals0 ==
    /\ page_name = ""
    /\ ec_output_dir = ""
    /\ convert_to_markdown = FALSE
    /\ pages_to_extract = <<>>
    /\ results = <<>>
    /\ ec_dirs = {}
    /\ out_files = NoFiles
    /\ report = None
    /\ ec_stdout = <<>>
    /\ ec_exit = -1

\* extract_content.py is not run.
ContentIdle ==
    /\ ec_argv = <<>>
    /\ ec_HAS_HTML2TEXT = TRUE
    /\ inventory_exists = FALSE
    /\ all_pages = <<>>
    /\ page_files = NoFiles
    /\ ec_pc = "idle"
    /\ ContentLocals0

\* The module run as a script.
InitMain ==
    /\ sys_argv \in Argvs
    /\ HAS_HTML2TEXT \in BOOLEAN
    /\ doc \in Documents
    /\ fs_dirs \in {{}, {OutDir}}
    /\ fs_dirs0 = fs_dirs
    /\ fs_files = NoFiles
    /\ pc = "start"
    /\ Locals0

\* The module imported, and its functions called by the importer.
InitLib ==
    /\ sys_argv = <<Prog>>
    /\ HAS_HTML2TEXT \in BOOLEAN
    /\ doc \in Documents
    /\ fs_dirs = {OutDir}
    /\ fs_dirs0 = fs_dirs
    /\ fs_files = NoFiles
    /\ pc = "lib"
    /\ Locals0

Init == (InitMain \/ InitLib) /\ CleanIdle /\ ContentIdle

InMain == pc \in {"start", "check_input", "check_html2text", "mkdir", "extract",
                  "write", "done"}

\* if len(sys.argv) < 3: usage, return 1; else bind the arguments.
MainArgs ==
    /\ pc = "start"
    /\ IF Len(sys_argv) < 3
       THEN /\ stdout' = Append(stdout, Msg("usage", 0, 0))
            /\ exit_status' = 1
            /\ pc' = "done"
            /\ UNCHANGED <<index_file, output_dir, keep_html>>
       ELSE /\ index_file' = sys_argv[2]
            /\ output_dir' = sys_argv[3]
            /\ keep_html' = (HtmlFlag \in Range(sys_argv))
            /\ pc' = "check_input"
            /\ UNCHANGED <<stdout, exit_status>>
    /\ UNCHANGED <<sys_argv, HAS_HTML2TEXT, doc, fs_dirs, fs_files, fs_dirs0,
                   entries, content_elements, k, filepath, raised>>
    /\ UNCHANGED otherVars

\* if not index_file.exists(): error, return 1
MainCheckInput ==
    /\ pc = "check_input"
    /\ IF ~Exists(index_file)
       THEN /\ stdout' = Append(stdout, Msg("error_not_found", 0, 0))
            /\ exit_status' = 1
            /\ pc' = "done"
       ELSE /\ pc' = "check_html2text"
            /\ UNCHANGED <<stdout, exit_status>>
    /\ UNCHANGED <<sys_argv, HAS_HTML2TEXT, doc, fs_dirs, fs_files, fs_dirs0,
                   index_file, output_dir, keep_html, entries, content_elements,
                   k, filepath, raised>>
    /\ UNCHANGED otherVars

\* The fault of warning without switching to HTML output.
MainCheckHtml2textNoFallback ==
    /\ pc = "check_html2text"
    /\ IF ~keep_html /\ ~HAS_HTML2TEXT
       THEN stdout' = Append(stdout, Msg("warning", 0, 0))
       ELSE UNCHANGED stdout
    /\ pc' = "mkdir"
    /\ UNCHANGED <<sys_argv, HAS_HTML2TEXT, doc, fs_dirs, fs_files, fs_dirs0,
                   index_file, output_dir, keep_html, entries, content_elements,
                   k, filepath, exit_status, raised>>
    /\ UNCHANGED otherVars

\* The fallback to HTML output where html2text is missing.
MainCheckHtml2text ==
    /\ pc = "check_html2text"
    /\ IF ~keep_html /\ ~HAS_HTML2TEXT
       THEN /\ stdout' = Append(stdout, Msg("warning", 0, 0))
            /\ keep_html' = TRUE
       ELSE UNCHANGED <<stdout, keep_html>>
    /\ pc' = "mkdir"
    /\ UNCHANGED <<sys_argv, HAS_HTML2TEXT, doc, fs_dirs, fs_files, fs_dirs0,
                   index_file, output_dir, entries, content_elements, k,
                   filepath, exit_status, raised>>
    /\ UNCHANGED otherVars

\* output_dir.mkdir(parents=True, exist_ok=True) and the two banner lines.
MainMkdir ==
    /\ pc = "mkdir"
    /\ fs_dirs' = fs_dirs \cup {output_dir}
    /\ stdout' = stdout \o <<Msg("extracting", 0, 0),
                             Msg("format", IF keep_html THEN 1 ELSE 0, 0)>>
    /\ pc' = "extract"
    /\ UNCHANGED <<sys_argv, HAS_HTML2TEXT, doc, fs_files, fs_dirs0, index_file,
                   output_dir, keep_html, entries, content_elements, k,
                   filepath, exit_status, raised>>
    /\ UNCHANGED otherVars

\* One iteration of the loop over news_h3s in extract_news_entries.
ExtractStep ==
    /\ pc = "extract"
    /\ Len(entries) < Len(NewsH3s(doc))
    /\ LET i == Len(entries)
           h == NewsH3s(doc)[i + 1]
       IN  /\ entries' = Append(entries, MakeEntry(doc, i, h))
           /\ content_elements' = Append(content_elements, ContentElements(doc, h))
    /\ UNCHANGED <<sys_argv, HAS_HTML2TEXT, doc, fs_dirs, fs_files, fs_dirs0, pc,
                   index_file, output_dir, keep_html, k, filepath, stdout,
                   exit_status, raised>>
    /\ UNCHANGED otherVars

\* The fault of handing the entries to main before the loop over the
\* headings has ended.
ExtractReturnEarly ==
    /\ pc = "extract"
    /\ Len(entries) >= 1 \/ Len(NewsH3s(doc)) = 0
    /\ stdout' = Append(stdout, Msg("found", Len(entries), 0))
    /\ pc' = "write"
    /\ UNCHANGED <<sys_argv, HAS_HTML2TEXT, doc, fs_dirs, fs_files, fs_dirs0,
                   index_file, output_dir, keep_html, entries, content_elements,
                   k, filepath, exit_status, raised>>
    /\ UNCHANGED otherVars

\* extract_news_entries returns; main prints how many entries it found.
ExtractReturn ==
    /\ pc = "extract"
    /\ Len(entries) = Len(NewsH3s(doc))
    /\ stdout' = Append(stdout, Msg("found", Len(entries), 0))
    /\ pc' = "write"
    /\ UNCHANGED <<sys_argv, HAS_HTML2TEXT, doc, fs_dirs, fs_files, fs_dirs0,
                   index_file, output_dir, keep_html, entries, content_elements,
                   k, filepath, exit_status, raised>>
    /\ UNCHANGED otherVars

\* One iteration of main's loop over the entries.
WriteStep ==
    /\ pc = "write"
    /\ k < Len(entries)
    /\ LET r == CreateNewsMarkdown(entries[k + 1], output_dir, keep_html,
                                   HAS_HTML2TEXT)
       IN  IF r.raised
           THEN /\ raised' = "NameError"
                /\ exit_status' = 1
                /\ pc' = "done"
                /\ UNCHANGED <<fs_files, filepath, stdout, k>>
           ELSE /\ fs_files' = WriteText(fs_files, r.filepath, r.full_content)
                /\ filepath' = r.filepath
                /\ stdout' = Append(stdout, Msg("created", k, 0))
                /\ k' = k + 1
                /\ UNCHANGED <<raised, exit_status, pc>>
    /\ UNCHANGED <<sys_argv, HAS_HTML2TEXT, doc, fs_dirs, fs_dirs0, index_file,
                   output_dir, keep_html, entries, content_elements>>
    /\ UNCHANGED otherVars

\* sum(1 for e in entries if e['date_iso'])
RECURSIVE CountWithDates(_)
CountWithDates(es) ==
    IF es = <<>> THEN 0
    ELSE (IF Truthy(Head(es).date_iso) THEN 1 ELSE 0) + CountWithDates(Tail(es))

\* The summary after the loop, and return 0.
MainSummary ==
    /\ pc = "write"
    /\ k = Len(entries)
    /\ stdout' = stdout \o
         <<Msg("complete", Len(entries), 0),
           Msg("stats", CountWithDates(entries),
               Len(entries) - CountWithDates(entries))>>
    /\ exit_status' = 0
    /\ pc' = "done"
    /\ UNCHANGED <<sys_argv, HAS_HTML2TEXT, doc, fs_dirs, fs_files, fs_dirs0,
                   index_file, output_dir, keep_html, entries, content_elements,
                   k, filepath, raised>>
    /\ UNCHANGED otherVars

\* A direct call extract_news_entries(index_file).
LibExtract ==
    /\ pc = "lib"
    /\ entries' = ExtractNewsEntries(doc)
    /\ content_elements' =
         [j \in 1..Len(NewsH3s(doc)) |-> ContentElements(doc, NewsH3s(doc)[j])]
    /\ pc' = "lib_extracted"
    /\ UNCHANGED <<sys_argv, HAS_HTML2TEXT, doc, fs_dirs, fs_files, fs_dirs0,
                   index_file, output_dir, keep_html, k, filepath, stdout,
                   exit_status, raised>>
    /\ UNCHANGED otherVars

\* A direct call create_news_markdown(entries[j], output_dir, keep_html=kh).
LibCreate ==
    /\ pc = "lib_extracted"
    /\ \E j \in 1..Len(entries), kh \in BOOLEAN :
         LET r == CreateNewsMarkdown(entries[j], OutDir, kh, HAS_HTML2TEXT)
         IN  /\ k' = j
             /\ keep_html' = kh
             /\ output_dir' = OutDir
             /\ IF r.raised
                THEN /\ raised' = "NameError"
                     /\ UNCHANGED <<fs_files, filepath>>
                ELSE /\ fs_files' = WriteText(fs_files, r.filepath, r.full_content)
                     /\ filepath' = r.filepath
                     /\ UNCHANGED raised
    /\ pc' = "lib_done"
    /\ UNCHANGED <<sys_argv, HAS_HTML2TEXT, doc, fs_dirs, fs_dirs0, index_file,
                   entries, content_elements, stdout, exit_status>>
    /\ UNCHANGED otherVars

Next ==
    \/ MainArgs
    \/ MainCheckInput
    \/ MainCheckHtml2text
    \/ MainMkdir
    \/ ExtractStep
    \/ ExtractReturn
    \/ WriteStep
    \/ MainSummary
    \/ LibExtract
    \/ LibCreate

Spec == Init /\ [][Next]_vars

---------------------------------------------------------------------------
(* Runs of main on pages with three dated or undated entries e1, e2, e3 *)

IdE1 == <<W("e1")>>
IdE2 == <<W("e2")>>
IdE3 == <<W("e3")>>

\* What may stand between the headings: nothing, a paragraph, a section
\* break, or an h3 without an id attribute.
Fillers ==
    { <<>>,
      <<Elem("p", FALSE, <<>>, <<W("text")>>, <<NL>>)>>,
      <<Elem("h1", FALSE, <<>>, <<W("Older")>>, <<>>)>>,
      <<Elem("h3", FALSE, <<>>, HeadFull, <<>>)>> }

\* The pages with three boundary headings e1, e2, e3 in this order, the
\* first two with a valid leading date and the third with none.
ScenarioDocs ==
    { f0 \o <<Elem("h3", TRUE, IdE1, t1, <<>>)>> \o f1
         \o <<Elem("h3", TRUE, IdE2, t2, <<>>)>> \o f2
         \o <<Elem("h3", TRUE, IdE3, HeadNoDate, <<>>)>> \o f3 :
        f0 \in {<<>>, <<Elem("p", FALSE, <<>>, <<W("text")>>, <<NL>>)>>},
        f1 \in Fillers, f2 \in Fillers, f3 \in Fillers,
        t1 \in {HeadFull, HeadAbbr}, t2 \in {HeadFull, HeadAbbr} }

InitScenario ==
    /\ sys_argv \in {<<Prog, IndexPath, OutDir>>, <<Prog, IndexPath, OutDir, HtmlFlag>>}
    /\ HAS_HTML2TEXT \in BOOLEAN
    /\ doc \in ScenarioDocs
    /\ fs_dirs \in {{}, {OutDir}}
    /\ fs_dirs0 = fs_dirs
    /\ fs_files = NoFiles
    /\ pc = "start"
    /\ Locals0
    /\ CleanIdle
    /\ ContentIdle

\* The steps of a run of main.
NextMain ==
    \/ MainArgs
    \/ MainCheckInput
    \/ MainCheckHtml2text
    \/ MainMkdir
    \/ ExtractStep
    \/ ExtractReturn
    \/ WriteStep
    \/ MainSummary

SpecScenario == InitScenario /\ [][NextMain]_vars

---------------------------------------------------------------------------
(* The clean-up of html_to_markdown, applied to arbitrary converted text *)

\* Longest converted text explored by the clean-up.
MaxLen == 6

\* extract_news.py is not running.
NewsIdle ==
    /\ sys_argv = <<Prog>>
    /\ HAS_HTML2TEXT = TRUE
    /\ doc = <<>>
    /\ fs_dirs = {}
    /\ fs_dirs0 = {}
    /\ fs_files = NoFiles
    /\ pc = "idle"
    /\ Locals0

\* What h.handle() may return: words, blanks and line breaks in any order.
ConvertedTexts == UNION { [1..n -> {W("x"), SP, NL}] : n \in 0..MaxLen }

InitClean ==
    /\ NewsIdle
    /\ markdown \in ConvertedTexts
    /\ clean_hist = <<markdown>>
    /\ ContentIdle

\* The clean-up lines of html_to_markdown, run on the text at hand.
CleanStep ==
    /\ Len(clean_hist) < 3
    /\ markdown' = Cleanup(markdown)
    /\ clean_hist' = Append(clean_hist, Cleanup(markdown))
    /\ UNCHANGED <<newsVars, contentVars>>

NextClean == CleanStep

SpecClean == InitClean /\ [][NextClean]_vars

---------------------------------------------------------------------------
(* The run of main() when a write to the output directory may fail *)

\* A file that was opened for writing and received nothing.
Truncated == [frontmatter |-> <<>>, content |-> <<>>]

\* The fault of undoing the earlier writes when one write fails.
WriteFailsRollsBack ==
    /\ pc = "write"
    /\ k < Len(entries)
    /\ ~CreateNewsMarkdown(entries[k + 1], output_dir, keep_html,
                           HAS_HTML2TEXT).raised
    /\ fs_files' = NoFiles
    /\ raised' = "OSError"
    /\ exit_status' = 1
    /\ pc' = "done"
    /\ UNCHANGED <<sys_argv, HAS_HTML2TEXT, doc, fs_dirs, fs_dirs0, index_file,
                   output_dir, keep_html, entries, content_elements, k,
                   filepath, stdout>>
    /\ UNCHANGED otherVars

\* filepath.write_text(full_content) raises OSError, either when it opens the
\* file, which it then leaves as it was, or after it has opened and so
\* emptied it. Nothing catches the exception and the run ends.
WriteFails ==
    /\ pc = "write"
    /\ k < Len(entries)
    /\ LET r == CreateNewsMarkdown(entries[k + 1], output_dir, keep_html,
                                   HAS_HTML2TEXT)
       IN  /\ ~r.raised
           /\ \/ fs_files' = fs_files
              \/ fs_files' = WriteText(fs_files, r.filepath, Truncated)
    /\ raised' = "OSError"
    /\ exit_status' = 1
    /\ pc' = "done"
    /\ UNCHANGED <<sys_argv, HAS_HTML2TEXT, doc, fs_dirs, fs_dirs0, index_file,
                   output_dir, keep_html, entries, content_elements, k,
                   filepath, stdout>>
    /\ UNCHANGED otherVars

InitCrash == InitMain /\ CleanIdle /\ ContentIdle

NextCrash == NextMain \/ WriteFails

SpecCrash == InitCrash /\ [][NextCrash]_vars

---------------------------------------------------------------------------
(* The run of main() of extract_content.py *)

MaxPages == 2

EcProg == "extract_content.py"
MarkdownFlag == "--markdown"
AllPages == "all"
UnknownPage == "nopage"

\* The pages a Makefile may list.
PageNames == {"index", "about", "download"}

\* inventory["makefile"]["pages"]: up to MaxPages pages, none twice.
PageLists ==
    UNION { {l \in [1..n -> PageNames] :
                \A i, j \in 1..n : i # j => l[i] # l[j]} : n \in 0..MaxPages }

\* What is under src/ for a page: its title and content files, with or
\* without a JavaScript file; or no title file; or no content file; or a
\* content file that is not UTF-8.
PageStates == {"ok", "ok_js", "no_title", "no_content", "bad_utf8"}

ContentArgvs ==
    {<<EcProg>>, <<EcProg, AllPages>>, <<EcProg, AllPages, MarkdownFlag>>}
    \cup {<<EcProg, p, OutDir>> : p \in {AllPages, "index", "about", UnknownPage}}
    \cup {<<EcProg, p, OutDir, MarkdownFlag>> :
              p \in {AllPages, "index", "about", UnknownPage}}

\* hashlib.sha256(data).hexdigest()
Sha256Bytes(data) == [sha256 |-> data]

\* extract_page(page_name, src_dir): the exception it raises, if any, and
\* the page data it returns otherwise.
ExtractPage(page) ==
    LET st == page_files[page]
        title == page \o "_title"
        content_bytes == [bytes |-> page, utf8 |-> st # "bad_utf8"]
        js_content == IF st = "ok_js" THEN page \o "_js" ELSE ""
    IN  [ raised |-> IF st = "no_title" THEN "Title file not found"
                     ELSE IF st = "no_content" THEN "Content file not found"
                     ELSE "",
          data |-> [ name |-> page,
                     title |-> title,
                     content |-> content_bytes,
                     js_includes |-> js_content,
                     checksums |-> [ title |-> Sha256Bytes(title),
                                     content |-> Sha256Bytes(content_bytes),
                                     js |-> Sha256Bytes(js_content) ] ] ]

\* generate_hugo_frontmatter(page_data)
GenerateHugoFrontmatter(page_data) ==
    [ title |-> page_data.title,
      slug |-> page_data.name,
      type |-> IF page_data.name = "index" THEN "homepage" ELSE "page",
      js_includes |-> page_data.js_includes,
      checksums |-> page_data.checksums ]

\* write_hugo_content(page_data, output_dir, convert_to_markdown), up to
\* the write: the exception the decoding raises, if any, the path and the
\* text.
WriteHugoContent(page_data, dir, convert) ==
    [ raised |-> IF page_data.content.utf8 THEN "" ELSE "UnicodeDecodeError",
      output_file |-> [ dir |-> dir,
                        name |-> IF page_data.name = "index" THEN "_index.md"
                                 ELSE page_data.name \o ".md" ],
      full_content |->
          [ frontmatter |-> GenerateHugoFrontmatter(page_data),
            content |-> [ of |-> page_data.content.bytes,
                          format |-> IF convert /\ ec_HAS_HTML2TEXT
                                     THEN "Markdown" ELSE "HTML" ] ] ]

FormatMode == IF convert_to_markdown THEN "Markdown" ELSE "HTML"

SuccessRecord(page, output_file, checksums) ==
    [ page |-> page, status |-> "success", output |-> output_file,
      checksums |-> checksums, format |-> FormatMode, error |-> "" ]

ErrorRecord(page, e) ==
    [ page |-> page, status |-> "error", output |-> None,
      checksums |-> None, format |-> "", error |-> e ]

\* sum(1 for r in results if r["status"] == "success")
RECURSIVE SuccessCount(_)
SuccessCount(rs) ==
    IF rs = <<>> THEN 0
    ELSE (IF Head(rs).status = "success" THEN 1 ELSE 0) + SuccessCount(Tail(rs))

InitContent ==
    /\ NewsIdle
    /\ CleanIdle
    /\ ec_argv \in ContentArgvs
    /\ ec_HAS_HTML2TEXT \in BOOLEAN
    /\ inventory_exists \in BOOLEAN
    /\ all_pages \in (IF inventory_exists THEN PageLists ELSE {<<>>})
    /\ page_files \in [Range(all_pages) -> PageStates]
    /\ ec_pc = "start"
    /\ ContentLocals0

\* The check of the argument count, and the reading of the arguments.
ContentArgs ==
    /\ ec_pc = "start"
    /\ IF Len(ec_argv) < 3
       THEN /\ ec_stdout' = Append(ec_stdout, Msg("usage", 0, 0))
            /\ ec_exit' = 1
            /\ ec_pc' = "done"
            /\ UNCHANGED <<page_name, ec_output_dir, convert_to_markdown>>
       ELSE /\ page_name' = ec_argv[2]
            /\ ec_output_dir' = ec_argv[3]
            /\ convert_to_markdown' = (MarkdownFlag \in Range(ec_argv))
            /\ ec_pc' = "check_html2text"
            /\ UNCHANGED <<ec_stdout, ec_exit>>
    /\ UNCHANGED <<ec_argv, ec_HAS_HTML2TEXT, inventory_exists, all_pages,
                   page_files, pages_to_extract, results, ec_dirs, out_files,
                   report>>
    /\ UNCHANGED <<newsVars, cleanVars>>

\* The fallback to HTML when html2text is not there.
ContentCheckHtml2text ==
    /\ ec_pc = "check_html2text"
    /\ IF convert_to_markdown /\ ~ec_HAS_HTML2TEXT
       THEN /\ ec_stdout' = Append(ec_stdout, Msg("warning", 0, 0))
            /\ convert_to_markdown' = FALSE
       ELSE UNCHANGED <<ec_stdout, convert_to_markdown>>
    /\ ec_pc' = "inventory"
    /\ UNCHANGED <<ec_argv, ec_HAS_HTML2TEXT, inventory_exists, all_pages,
                   page_files, page_name, ec_output_dir, pages_to_extract,
                   results, ec_dirs, out_files, report, ec_exit>>
    /\ UNCHANGED <<newsVars, cleanVars>>

\* The loading of the inventory and the choice of the pages to extract.
ContentInventory ==
    /\ ec_pc = "inventory"
    /\ IF ~inventory_exists
       THEN /\ ec_stdout' = Append(ec_stdout, Msg("error_inventory", 0, 0))
            /\ ec_exit' = 1
            /\ ec_pc' = "done"
            /\ UNCHANGED pages_to_extract
       ELSE IF page_name = AllPages \/ page_name \in Range(all_pages)
       THEN /\ pages_to_extract' =
                  (IF page_name = AllPages THEN all_pages ELSE <<page_name>>)
            /\ ec_stdout' = Append(ec_stdout, Msg("format", IF convert_to_markdown THEN 1 ELSE 0, 0))
            /\ ec_pc' = "pages"
            /\ UNCHANGED ec_exit
       ELSE /\ ec_stdout' = Append(ec_stdout, Msg("error_page", 0, 0))
            /\ ec_exit' = 1
            /\ ec_pc' = "done"
            /\ UNCHANGED pages_to_extract
    /\ UNCHANGED <<ec_argv, ec_HAS_HTML2TEXT, inventory_exists, all_pages,
                   page_files, page_name, ec_output_dir, convert_to_markdown,
                   results, ec_dirs, out_files, report>>
    /\ UNCHANGED <<newsVars, cleanVars>>

\* The fault of letting the exception of one page end the run.
ContentPageAborts ==
    /\ ec_pc = "pages"
    /\ Len(results) < Len(pages_to_extract)
    /\ LET i == Len(results)
           page == pages_to_extract[i + 1]
           e == ExtractPage(page)
           w == WriteHugoContent(e.data, ec_output_dir, convert_to_markdown)
       IN  IF e.raised # "" \/ w.raised # ""
           THEN /\ ec_stdout' = Append(ec_stdout, Msg("extracting", i, 0))
                /\ ec_exit' = 1
                /\ ec_pc' = "done"
                /\ UNCHANGED <<results, ec_dirs, out_files>>
           ELSE /\ ec_dirs' = ec_dirs \cup {ec_output_dir}
                /\ out_files' = WriteText(out_files, w.output_file, w.full_content)
                /\ results' = Append(results,
                       SuccessRecord(page, w.output_file, e.data.checksums))
                /\ ec_stdout' = ec_stdout \o
                       <<Msg("extracting", i, 0), Msg("written", i, 0)>>
                /\ UNCHANGED <<ec_exit, ec_pc>>
    /\ UNCHANGED <<ec_argv, ec_HAS_HTML2TEXT, inventory_exists, all_pages,
                   page_files, page_name, ec_output_dir, convert_to_markdown,
                   pages_to_extract, report>>
    /\ UNCHANGED <<newsVars, cleanVars>>

\* One iteration of main's loop over pages_to_extract: the try block, and
\* the except clause that records whatever it raised. The write at the
\* end of write_hugo_content may fail as any write may, after the
\* directory is made, leaving the file as it was or empty.
ContentPage ==
    /\ ec_pc = "pages"
    /\ Len(results) < Len(pages_to_extract)
    /\ LET i == Len(results)
           page == pages_to_extract[i + 1]
           e == ExtractPage(page)
           w == WriteHugoContent(e.data, ec_output_dir, convert_to_markdown)
       IN  IF e.raised # "" \/ w.raised # ""
           THEN /\ results' = Append(results,
                       ErrorRecord(page, IF e.raised # "" THEN e.raised
                                         ELSE w.raised))
                /\ ec_stdout' = ec_stdout \o
                       <<Msg("extracting", i, 0), Msg("error", i, 0)>>
                /\ UNCHANGED <<ec_dirs, out_files>>
           ELSE /\ ec_dirs' = ec_dirs \cup {ec_output_dir}
                /\ \/ /\ out_files' =
                            WriteText(out_files, w.output_file, w.full_content)
                      /\ results' = Append(results,
                            SuccessRecord(page, w.output_file, e.data.checksums))
                      /\ ec_stdout' = ec_stdout \o
                            <<Msg("extracting", i, 0), Msg("written", i, 0)>>
                   \/ /\ \/ out_files' = out_files
                         \/ out_files' =
                               WriteText(out_files, w.output_file, Truncated)
                      /\ results' = Append(results, ErrorRecord(page, "OSError"))
                      /\ ec_stdout' = ec_stdout \o
                            <<Msg("extracting", i, 0), Msg("error", i, 0)>>
    /\ UNCHANGED <<ec_argv, ec_HAS_HTML2TEXT, inventory_exists, all_pages,
                   page_files, ec_pc, page_name, ec_output_dir,
                   convert_to_markdown, pages_to_extract, report, ec_exit>>
    /\ UNCHANGED <<newsVars, cleanVars>>

\* The summary, the report and the return after the loop.
ContentSummary ==
    /\ ec_pc = "pages"
    /\ Len(results) = Len(pages_to_extract)
    /\ LET success_count == SuccessCount(results)
       IN  /\ ec_stdout' = ec_stdout \o
                 <<Msg("complete", success_count, Len(pages_to_extract)),
                   Msg("format", IF convert_to_markdown THEN 1 ELSE 0, 0),
                   Msg("report", 0, 0)>>
           /\ report' = [ pages_requested |-> Len(pages_to_extract),
                          pages_successful |-> success_count,
                          output_dir |-> ec_output_dir,
                          results |-> results ]
           /\ ec_exit' = IF success_count = Len(pages_to_extract) THEN 0 ELSE 1
    /\ ec_pc' = "done"
    /\ UNCHANGED <<ec_argv, ec_HAS_HTML2TEXT, inventory_exists, all_pages,
                   page_files, page_name, ec_output_dir, convert_to_markdown,
                   pages_to_extract, results, ec_dirs, out_files>>
    /\ UNCHANGED <<newsVars, cleanVars>>

NextContent ==
    \/ ContentArgs
    \/ ContentCheckHtml2text
    \/ ContentInventory
    \/ ContentPage
    \/ ContentSummary

SpecContent == InitContent /\ [][NextContent]_vars

---------------------------------------------------------------------------
(* Properties *)

\* The whole list of entries has been built.
ExtractionDone ==
    \/ pc \in {"write", "lib_extracted", "lib_done"}
    \/ (pc = "done" /\ exit_status = 0)

InSpan(j, p) == \E q \in 1..Len(content_elements[j]) : content_elements[j][q] = p

\* A boundary marker, as the page shows it: an h3 that carries an id
\* attribute, or an h1.
IsMarker(e) == (e.tag = "h3" /\ e.hasid) \/ e.tag = "h1"

\* C1 (no node belongs to two entries): once the entries are built, no node
\* of the page lies in the body span of two different entries.
C1_SpansDisjoint ==
    ExtractionDone =>
        \A a, b \in 1..Len(content_elements) :
            a # b => ~(\E p \in 1..Len(doc) : InSpan(a, p) /\ InSpan(b, p))

\* C1 (no node is dropped): once the entries are built, every node after the
\* first boundary heading that is no boundary marker lies in a body span.
C1_NothingDropped ==
    ExtractionDone =>
        \A p \in 1..Len(doc) :
            ((\E h \in 1..(p - 1) : doc[h].tag = "h3" /\ doc[h].hasid)
                /\ ~IsMarker(doc[p]))
            => \E j \in 1..Len(content_elements) : InSpan(j, p)

\* The siblings from position p up to, not including, the first boundary
\* marker.
RECURSIVE UpToMarker(_, _)
UpToMarker(d, p) ==
    IF p > Len(d) \/ IsMarker(d[p]) THEN <<>> ELSE <<p>> \o UpToMarker(d, p + 1)

\* C2: the body span of each boundary heading is the run of following
\* siblings up to, not including, the next heading that is itself an entry
\* or the next h1, and runs to the last sibling where there is neither.
C2_SpanEndsAtNextBoundary ==
    ExtractionDone =>
        \A j \in 1..Len(content_elements) :
            content_elements[j] = UpToMarker(doc, NewsH3s(doc)[j] + 1)

\* A canonical YYYY-MM-DD calendar date.
IsCanonicalDate(x) ==
    /\ Len(x) = 5
    /\ x[1].k = "num" /\ x[1].w = 4 /\ x[1].n >= 1
    /\ x[2] = P("-")
    /\ x[3].k = "num" /\ x[3].w = 2 /\ x[3].n \in 1..12
    /\ x[4] = P("-")
    /\ x[5].k = "num" /\ x[5].w = 2 /\ x[5].n >= 1
    /\ x[5].n <= DaysInMonth(x[1].n, x[3].n)

\* The heading text has a leading phrase of the date grammar.
MatchesGrammar(t) == DateMatchLen(t) > 0

\* The leading date phrase parses under neither month form.
Unparseable(t) ==
    LET c == StripOrdinals(SubSeq(t, 1, DateMatchLen(t)))
    IN  Strptime(c, FullMonths) = None /\ Strptime(c, AbbrMonths) = None

\* C3: an entry whose heading does not match the date grammar, or whose date
\* phrase parses under neither month form, has no normalized date and keeps
\* the full heading text as its title.
C3_FailedDateKeepsHeading ==
    \A j \in 1..Len(entries) :
        LET e == entries[j]
        IN  (~MatchesGrammar(e.title_full) \/ Unparseable(e.title_full))
            => (e.date_iso = None /\ e.title = e.title_full)

\* C4: the date split and parse_date never raise and give each entry either
\* a canonical date with the stripped title, or no date with the original
\* title.
C4_DateNormalizerTotal ==
    /\ (pc \in {"extract", "lib_extracted"} => raised = "")
    /\ \A j \in 1..Len(entries) :
        LET e == entries[j]
        IN  \/ (IsCanonicalDate(e.date_iso)
                  /\ e.title = Strip(DateMatchRest(e.title_full)))
            \/ (e.date_iso = None /\ e.title = e.title_full)

\* The name <date>-<identifier>.md
DatedName(e) == e.date_iso \o <<P("-")>> \o e.id \o <<P(".md")>>

\* The name <index, three digits>-<identifier>.md, for an index below 1000.
IndexedName(e) == <<D(e.index, 3), P("-")>> \o e.id \o <<P(".md")>>

\* C5: the file of an entry is <date>-<identifier>.md where the entry has a
\* normalized date, which is then a canonical date, and otherwise
\* <index>-<identifier>.md; the path returned is the path written.
C5_FilenameScheme ==
    (pc \in {"write", "done", "lib_done"} /\ k > 0 /\ raised = "") =>
        LET e == entries[k]
        IN  /\ filepath \in DOMAIN fs_files
            /\ filepath.dir = output_dir
            /\ IF Truthy(e.date_iso)
               THEN IsCanonicalDate(e.date_iso) /\ filepath.name = DatedName(e)
               ELSE filepath.name = IndexedName(e)

\* How many messages of a kind were printed.
Count(kind) == Len(SelectSeq(stdout, LAMBDA m : m.k = kind))

\* main got past its argument and input checks.
PastChecks ==
    \/ pc \in {"mkdir", "extract", "write"}
    \/ (pc = "done" /\ Count("extracting") = 1)

\* A create_news_markdown call has returned a path for entries[k].
Created == pc \in {"write", "done", "lib_done"} /\ k > 0 /\ raised = ""

\* C6: the checksum in the header of a written entry is the digest of the
\* entry's unrendered body span, and the header is the same in literal and
\* in conversion mode.
C6_HeaderIndependentOfMode ==
    Created =>
        LET e == entries[k]
            f == fs_files[filepath]
            lit == CreateNewsMarkdown(e, output_dir, TRUE, TRUE).full_content
            conv == CreateNewsMarkdown(e, output_dir, FALSE, TRUE).full_content
            last == f.frontmatter[Len(f.frontmatter)]
        IN  /\ last.key = "checksum_html"
            /\ last.val = Sha256(ContentHtml(doc, content_elements[k]))
            /\ f.frontmatter = lit.frontmatter
            /\ f.frontmatter = conv.frontmatter

\* A run in conversion mode wrote an entry whose rendered body differs from
\* its source markup.
C6_Witness ==
    /\ pc = "done" /\ exit_status = 0 /\ k > 0 /\ ~keep_html
    /\ fs_files[filepath].content # entries[k].content_html

\* Conversion mode was asked for and html2text is missing.
ConversionAskedWithoutHtml2text ==
    /\ ~HAS_HTML2TEXT
    /\ IF InMain THEN PastChecks /\ HtmlFlag \notin Range(sys_argv)
       ELSE pc = "lib_done" /\ ~keep_html

C8_FallbackOncePerRun ==
    (InMain /\ PastChecks /\ ~HAS_HTML2TEXT /\ HtmlFlag \notin Range(sys_argv)) =>
        /\ Count("warning") = 1
        /\ keep_html
        /\ raised = ""
        /\ \A f \in DOMAIN fs_files :
             \E j \in 1..k : /\ f.name = Filename(entries[j])
                             /\ fs_files[f].content = entries[j].content_html
        /\ (pc = "done" => exit_status = 0 /\ k = Len(entries))

\* Such a run has ended after writing two entries or more.
C8_Witness ==
    /\ pc = "done" /\ PastChecks /\ ~HAS_HTML2TEXT
    /\ HtmlFlag \notin Range(sys_argv) /\ k >= 2 /\ fs_files # NoFiles

\* The arguments that are not the --html flag.
Positionals(argv) == SelectSeq(Tail(argv), LAMBDA a : a # HtmlFlag)

FsUnchanged == fs_dirs = fs_dirs0 /\ fs_files = NoFiles

\* C9: a run of main with fewer than two positional arguments, or whose
\* input path does not exist, ends with a non-zero status and a usage or
\* error message, and leaves the file system as it was.
C9_BadArgsExitBeforeSideEffects ==
    (InMain /\ pc = "done"
        /\ (Len(Positionals(sys_argv)) < 2
            \/ sys_argv[2] \notin ({IndexPath} \cup fs_dirs0)))
    => /\ exit_status # 0
       /\ Count("usage") + Count("error_not_found") >= 1
       /\ FsUnchanged

\* No h3 of the page carries an id attribute.
ZeroBoundaries(d) == ~(\E p \in 1..Len(d) : d[p].tag = "h3" /\ d[p].hasid)

\* C10: for a page without boundary headings the entry list stays empty,
\* nothing is raised and no file is written; main then reports 0 entries
\* found, 0 with dates and 0 without, and ends with status 0.
C10_ZeroBoundariesZeroEntries ==
    ZeroBoundaries(doc) =>
        /\ entries = <<>>
        /\ raised = ""
        /\ fs_files = NoFiles
        /\ (pc = "done" /\ PastChecks) =>
             /\ exit_status = 0
             /\ Count("found") = 1 /\ Msg("found", 0, 0) \in Range(stdout)
             /\ stdout[Len(stdout)] = Msg("stats", 0, 0)
             /\ Count("created") = 0

\* main has ended on a page that has an h3 but no boundary heading.
C10_Witness ==
    /\ pc = "done" /\ PastChecks /\ ZeroBoundaries(doc)
    /\ \E p \in 1..Len(doc) : doc[p].tag = "h3"

\* The text has a run of three line breaks or more.
HasTripleNewline(s) ==
    \E i \in 1..(Len(s) - 2) : s[i].k = "nl" /\ s[i + 1].k = "nl" /\ s[i + 2].k = "nl"

\* The text begins or ends with white space.
HasOuterWhite(s) == s # <<>> /\ (IsWhite(s[1]) \/ IsWhite(s[Len(s)]))

\* C11: a cleaned text has no run of three line breaks or more and no white
\* space at either end, and cleaning it a second time gives the same text.
C11_CleanupIdempotent ==
    /\ \A i \in 2..Len(clean_hist) :
         ~HasTripleNewline(clean_hist[i]) /\ ~HasOuterWhite(clean_hist[i])
    /\ (Len(clean_hist) = 3 => clean_hist[3] = clean_hist[2])

\* A text with a long run of line breaks inside and white space around it
\* has been cleaned twice.
C11_Witness ==
    /\ Len(clean_hist) = 3
    /\ clean_hist[1] = <<SP, W("x"), NL, NL, NL, W("x")>>
    /\ clean_hist[2] = <<W("x"), NL, NL, W("x")>>

\* The canonical date of the two dated heading texts.
CanonicalOf(text) ==
    IF text = HeadFull
    THEN <<D(2025, 4), P("-"), D(8, 2), P("-"), D(22, 2)>>
    ELSE <<D(2024, 4), P("-"), D(8, 2), P("-"), D(2, 2)>>

\* The text of the boundary heading with the given id.
HeadingOf(d, id) == (CHOOSE p \in 1..Len(d) : d[p].hasid /\ d[p].id = id) 

\* C12: a page with boundary headings e1, e2, e3, the first two dated and
\* the third not, ends with exactly three files, <date>-e1.md, <date>-e2.md
\* and 002-e3.md, and a summary of 2 entries with dates and 1 without.
C12_EndToEnd ==
    pc = "done" =>
        /\ exit_status = 0
        /\ DOMAIN fs_files =
             { [dir |-> OutDir,
                name |-> CanonicalOf(doc[HeadingOf(doc, IdE1)].text)
                         \o <<P("-")>> \o IdE1 \o <<P(".md")>>],
               [dir |-> OutDir,
                name |-> CanonicalOf(doc[HeadingOf(doc, IdE2)].text)
                         \o <<P("-")>> \o IdE2 \o <<P(".md")>>],
               [dir |-> OutDir,
                name |-> <<D(2, 3), P("-")>> \o IdE3 \o <<P(".md")>>] }
        /\ Cardinality(DOMAIN fs_files) = 3
        /\ Count("created") = 3
        /\ stdout[Len(stdout)] = Msg("stats", 2, 1)

\* Such a run has ended on a page that has other nodes between the headings.
C12_Witness ==
    pc = "done" /\ Len(doc) >= 5 /\ Cardinality(DOMAIN fs_files) = 3

\* How many of the entries have a canonical normalized date.
RECURSIVE CountCanonical(_)
CountCanonical(es) ==
    IF es = <<>> THEN 0
    ELSE (IF IsCanonicalDate(Head(es).date_iso) THEN 1 ELSE 0)
         + CountCanonical(Tail(es))

\* C13: a run of main that passes its checks writes a file for every entry,
\* parseable date or not, and its summary counts as entries with dates those
\* that have a canonical normalized date and as entries without the rest.
C13_UnparseableCountsAsUndated ==
    (InMain /\ pc = "done" /\ PastChecks) =>
        /\ exit_status = 0
        /\ Count("created") = Len(entries)
        /\ \A j \in 1..Len(entries) :
             [dir |-> output_dir, name |-> Filename(entries[j])] \in DOMAIN fs_files
        /\ stdout[Len(stdout)] =
             Msg("stats", CountCanonical(entries),
                 Len(entries) - CountCanonical(entries))

\* The path main writes entry j to.
PathOf(j) == [dir |-> output_dir, name |-> Filename(entries[j])]

\* Entries i and j have the same identifier and the same canonical date.
SameIdAndDate(i, j) ==
    /\ entries[i].id = entries[j].id
    /\ IsCanonicalDate(entries[i].date_iso)
    /\ entries[i].date_iso = entries[j].date_iso

\* C14: where two boundary headings share identifier and normalized date,
\* both are entries, both resolve to one filename, and the run ends well:
\* it reports one created file per entry, while the directory holds a single
\* file of that name, with the header and body of the last such entry.
C14_CollisionOverwrites ==
    (InMain /\ pc = "done" /\ PastChecks) =>
        \A i, j \in 1..Len(entries) :
            (i < j /\ SameIdAndDate(i, j)) =>
                /\ Len(entries) =
                     Cardinality({p \in 1..Len(doc) : doc[p].tag = "h3" /\ doc[p].hasid})
                /\ Filename(entries[i]) = Filename(entries[j])
                /\ exit_status = 0 /\ raised = ""
                /\ Count("created") = Len(entries)
                /\ Msg("complete", Len(entries), 0) \in Range(stdout)
                /\ Cardinality(DOMAIN fs_files) < Len(entries)
                /\ (\A l \in (j + 1)..Len(entries) : PathOf(l) # PathOf(j))
                   => fs_files[PathOf(j)] =
                        CreateNewsMarkdown(entries[j], output_dir, keep_html,
                                           HAS_HTML2TEXT).full_content

\* A run has ended in which the second of two such entries, with another
\* body than the first, has replaced the file of the first.
C14_Witness ==
    /\ InMain /\ pc = "done" /\ PastChecks
    /\ Len(entries) = 2 /\ SameIdAndDate(1, 2)
    /\ entries[1].content_html # entries[2].content_html
    /\ Cardinality(DOMAIN fs_files) = 1

\* C15: two distinct entries of one run that both lack a normalized date
\* are written to different filenames, whatever their identifiers.
C15_UndatedFilenamesDistinct ==
    \A i, j \in 1..Len(entries) :
        ( /\ i # j
          /\ ~IsCanonicalDate(entries[i].date_iso)
          /\ ~IsCanonicalDate(entries[j].date_iso) )
        => Filename(entries[i]) # Filename(entries[j])

\* The headings of the page that open an entry.
Boundaries == {p \in 1..Len(doc) : doc[p].tag = "h3" /\ doc[p].hasid}

\* C16: each entry is processed to completion before the next begins: the
\* file of entry k is written before entry k+1 is segmented or
\* date-normalized, so at most one entry is ever segmented and not yet
\* written.
C16_EntryAtATime == InMain => Len(entries) <= k + 1

\* C16, amended: the run has two passes. Every entry is segmented and
\* date-normalized before the first file is written; then the entries are
\* rendered and written one at a time, in document order.
C16_SegmentAllThenWrite ==
    InMain =>
        /\ (k > 0 \/ fs_files # NoFiles \/ pc = "write")
           => Len(entries) = Cardinality(Boundaries)
        /\ Count("created") = k
        /\ k <= Len(entries)
        /\ DOMAIN fs_files = {PathOf(j) : j \in 1..k}

\* Three entries have been segmented and only the file of the first written.
C16_Witness ==
    /\ InMain /\ pc = "write"
    /\ Len(entries) = 3 /\ k = 1
    /\ DOMAIN fs_files = {PathOf(1)}

\* The paths of the files written for the entries 1..n.
WrittenFor(n) == {PathOf(j) : j \in 1..n}

\* What the last of the entries 1..n that resolve to the path wrote there.
LastWritten(path, n) ==
    LET j == CHOOSE j \in 1..n :
                 /\ PathOf(j) = path
                 /\ \A l \in (j + 1)..n : PathOf(l) # path
    IN  CreateNewsMarkdown(entries[j], output_dir, keep_html,
                           HAS_HTML2TEXT).full_content

\* C17: at every point of a run, and so when a write fails at entry k, the
\* files correspond to a prefix of the entry list: the files of the entries
\* before k are there and hold what the last entry of their name wrote, no
\* file is there for a later entry, and only the file of the failed write
\* itself may have been emptied.
C17_CrashLeavesPrefix ==
    InMain =>
        LET failing == IF raised = "OSError" THEN {PathOf(k + 1)} ELSE {}
        IN  /\ WrittenFor(k) \subseteq DOMAIN fs_files
            /\ DOMAIN fs_files \subseteq WrittenFor(k) \cup failing
            /\ \A path \in WrittenFor(k) \ failing :
                   fs_files[path] = LastWritten(path, k)
            /\ \A path \in failing \cap DOMAIN fs_files :
                   \/ fs_files[path] = Truncated
                   \/ path \in WrittenFor(k) /\ fs_files[path] = LastWritten(path, k)

\* The write of the second of three entries has failed: the file of the
\* first is whole, that of the second is empty, the third has none.
C17_Witness ==
    /\ InMain /\ pc = "done" /\ raised = "OSError"
    /\ Len(entries) = 3 /\ k = 1
    /\ PathOf(1) # PathOf(2) /\ PathOf(3) \notin {PathOf(1), PathOf(2)}
    /\ DOMAIN fs_files = {PathOf(1), PathOf(2)}
    /\ fs_files[PathOf(1)] = LastWritten(PathOf(1), 1)
    /\ fs_files[PathOf(2)] = Truncated

\* main of extract_content.py has chosen the pages and gone into its loop.
BatchBegun == \E m \in Range(ec_stdout) : m.k = "format"

\* The files of the page under src/ can be read and decoded.
PageReadable(page) == page_files[page] \in {"ok", "ok_js"}

\* The output file of the page.
OutputOf(page) ==
    [dir |-> ec_output_dir,
     name |-> IF page = "index" THEN "_index.md" ELSE page \o ".md"]

\* C18: in extract_content.py, the failure of one page does not end the
\* batch. The run reaches its summary with one result record for each
\* requested page, in request order, of status success or error; a page
\* whose files cannot be read has an error record, a success record goes
\* with a written file, also after a failed page; and the exit status is 0
\* exactly when every record is a success.
C18_FailureDoesNotAbortBatch ==
    /\ (ec_pc = "done" /\ BatchBegun)
       => /\ report # None
          /\ Len(results) = Len(pages_to_extract)
          /\ report.results = results
          /\ (ec_exit = 0) <=> (\A i \in 1..Len(results) :
                                    results[i].status = "success")
    /\ \A i \in 1..Len(results) :
          /\ i <= Len(pages_to_extract)
          /\ results[i].page = pages_to_extract[i]
          /\ results[i].status \in {"success", "error"}
          /\ ~PageReadable(results[i].page) => results[i].status = "error"
          /\ results[i].status = "success"
             => /\ OutputOf(results[i].page) \in DOMAIN out_files
                /\ out_files[OutputOf(results[i].page)] # Truncated

\* A batch of two pages has ended: the first has no title file and has an
\* error record, the second has been written and has a success record.
C18_Witness ==
    /\ ec_pc = "done"
    /\ Len(pages_to_extract) = 2 /\ Len(results) = 2
    /\ page_files[pages_to_extract[1]] = "no_title"
    /\ results[1].status = "error"
    /\ results[2].status = "success"
    /\ OutputOf(pages_to_extract[2]) \in DOMAIN out_files
    /\ ec_exit = 1

====
